---- MODULE Spec2Model ----
(***************************************************************************)
(* A model of datasets/extract_frames_and_boxes_h36m.py:                   *)
(*                                                                         *)
(*   main                    the orchestrator: the DATA_ROOT check, one    *)
(*                           multiprocessing.Pool, two pool.map batches    *)
(*   extract_bounding_boxes  masks -> [left, top, width, height] boxes     *)
(*   extract_frames          every 5th and every 64th frame -> jpg files   *)
(*                                                                         *)
(* Four specifications share the variables:                                *)
(*   Spec        main and the pool, work items as start/return/raise       *)
(*   SpecBBox    one run of extract_bounding_boxes, statement by statement *)
(*   SpecFrames  runs of extract_frames on one video, frame by frame       *)
(*   SpecPaths   the destination paths derived for two discovered sources  *)
(***************************************************************************)
EXTENDS Integers, Sequences, FiniteSets, TLC

\* ------------------------------------------------------------------------
\* Bounds of the model
\* ------------------------------------------------------------------------
MaxProcs == 2
MaxItems == 5
MaxMasks == 2
MaxFrames == 11
MaxRuns == 2
MaxDepth == 2

VARIABLES
    \* main and the pool
    hasRoot,      \* 'DATA_ROOT' in os.environ
    nprocs,       \* os.cpu_count(): the size of Pool()
    nItems,       \* batch -> number of paths glob.glob finds for it
    pc,           \* where main is
    taskq,        \* the pool's task queue: chunks not yet taken by a worker
    worker,       \* worker -> what it is doing
    numberLeft,   \* MapResult._number_left of the map in progress
    success,      \* MapResult._success of the map in progress
    calls,        \* item -> number of invocations of the conversion function
    status,       \* item -> pending | running | returned | raised
    disk,         \* the items whose output is on disk
    \* extract_bounding_boxes
    bpc,          \* where extract_bounding_boxes is
    source,       \* the annotation file: unreadable, or its entries
    ib,           \* the loop index i
    bboxes,       \* the array bboxes
    dstFile,      \* the content of the destination file
    dstFile0,     \* the content of the destination file before the run
    saves,        \* number of np.save calls
    \* extract_frames
    fpc,          \* where extract_frames is
    nFrames,      \* number of frames the reader delivers
    badAt,        \* the frame at which decoding fails, or -1
    i_frame,      \* the loop index i_frame
    dirExists,    \* whether dst_folder_path exists
    frames,       \* the files in dst_folder_path: file name -> content
    frames0,      \* frames at the start of the current run
    imwrites,     \* file name -> number of imageio.imwrite calls in this run
    run,          \* number of the current run
    \* path derivation
    ppc,          \* where main is in the path model
    files,        \* the files under DATA_ROOT
    discovered,   \* the paths glob.glob returned that are still to be mapped
    dstOf         \* source path -> the destination its work item writes to

mainVars == <<hasRoot, nprocs, nItems, pc, taskq, worker, numberLeft,
              success, calls, status, disk>>
bbVars == <<bpc, source, ib, bboxes, dstFile, dstFile0, saves>>
frVars == <<fpc, nFrames, badAt, i_frame, dirExists, frames, frames0,
            imwrites, run>>
pathVars == <<ppc, files, discovered, dstOf>>
vars == <<mainVars, bbVars, frVars, pathVars>>

\* ------------------------------------------------------------------------
\* main and multiprocessing.Pool
\* ------------------------------------------------------------------------
Batches == {"bbox", "video"}
Workers == 1..MaxProcs
ItemsOf(b) == {<<b, k>> : k \in 1..nItems[b]}
AllItems == {<<b, k>> : b \in Batches, k \in 1..MaxItems}

\* Pool._map_async: chunksize, extra = divmod(len(iterable), len(pool) * 4);
\* one more when extra is not 0; 0 for an empty iterable.
ChunkSize(n, p) ==
    IF n = 0 THEN 0
    ELSE (n \div (4 * p)) + (IF n % (4 * p) # 0 THEN 1 ELSE 0)

\* MapResult.__init__: the number of chunks.
NumberOfChunks(n, cs) ==
    IF cs <= 0 THEN 0 ELSE (n \div cs) + (IF n % cs # 0 THEN 1 ELSE 0)

\* Pool._get_tasks: the c-th chunk (from 1) of the items 1..n, in order.
Chunk(b, n, cs, c) ==
    [j \in 1..(IF c * cs <= n THEN cs ELSE n - (c - 1) * cs) |->
        <<b, (c - 1) * cs + j>>]

Tasks(b, n, p) ==
    [c \in 1..NumberOfChunks(n, ChunkSize(n, p)) |->
        Chunk(b, n, ChunkSize(n, p), c)]

Idle == [st |-> "idle", chunk |-> <<>>, pos |-> 0]

MainInit ==
    /\ hasRoot \in BOOLEAN
    /\ nprocs \in 1..MaxProcs
    /\ nItems \in [Batches -> 0..MaxItems]
    /\ pc = "start"
    /\ taskq = <<>>
    /\ worker = [w \in Workers |-> [st |-> "none", chunk |-> <<>>, pos |-> 0]]
    /\ numberLeft = 0
    /\ success = TRUE
    /\ calls = [it \in AllItems |-> 0]
    /\ status = [it \in AllItems |-> "pending"]
    /\ disk = {}

\* main, lines 15-17: DATA_ROOT is missing: print and sys.exit(1).
ExitNoRoot ==
    /\ pc = "start"
    /\ ~hasRoot
    /\ pc' = "exit1"
    /\ UNCHANGED <<hasRoot, nprocs, nItems, taskq, worker, numberLeft,
                   success, calls, status, disk, bbVars, frVars,
                   pathVars>>

\* main, lines 15-20: DATA_ROOT is set: Pool() starts os.cpu_count() workers.
CreatePool ==
    /\ pc = "start"
    /\ hasRoot
    /\ worker' = [w \in Workers |-> IF w <= nprocs THEN Idle ELSE worker[w]]
    /\ pc' = "glob_bbox"
    /\ UNCHANGED <<hasRoot, nprocs, nItems, taskq, numberLeft, success,
                   calls, status, disk, bbVars, frVars, pathVars>>

\* pool.map up to the point where it blocks: the paths are cut into chunks,
\* the chunks are queued, and a MapResult counts them.
Dispatch(b) ==
    /\ taskq' = Tasks(b, nItems[b], nprocs)
    /\ numberLeft' = Len(Tasks(b, nItems[b], nprocs))
    /\ success' = TRUE

\* main, lines 21-22: glob the annotation files, pool.map them.
MapBBoxes ==
    /\ pc = "glob_bbox"
    /\ Dispatch("bbox")
    /\ pc' = "map_bbox"
    /\ UNCHANGED <<hasRoot, nprocs, nItems, worker, calls, status,
                   disk, bbVars, frVars, pathVars>>

\* main, lines 24-25: glob the videos, pool.map them.
MapVideos ==
    /\ pc = "glob_video"
    /\ Dispatch("video")
    /\ pc' = "map_video"
    /\ UNCHANGED <<hasRoot, nprocs, nItems, worker, calls, status,
                   disk, bbVars, frVars, pathVars>>

\* Mutant of MapReturns: get does not wait for the chunks still out.
MapReturnsNoWait ==
    /\ pc \in {"map_bbox", "map_video"}
    /\ pc' = IF ~success THEN "raised"
             ELSE IF pc = "map_bbox" THEN "glob_video" ELSE "returned"
    /\ UNCHANGED <<hasRoot, nprocs, nItems, taskq, worker, numberLeft,
                   success, calls, status, disk, bbVars, frVars, pathVars>>

\* MapResult.get, reached from pool.map: blocks until every chunk has
\* reported, then returns the results or raises the first exception stored.
\* An exception leaves main: the second batch is never dispatched.
MapReturns ==
    /\ pc \in {"map_bbox", "map_video"}
    /\ numberLeft = 0
    /\ pc' = IF ~success THEN "raised"
             ELSE IF pc = "map_bbox" THEN "glob_video" ELSE "returned"
    /\ UNCHANGED <<hasRoot, nprocs, nItems, taskq, worker, numberLeft,
                   success, calls, status, disk, bbVars, frVars,
                   pathVars>>

\* Mutant of TakeTask: the chunk taken stays in the queue.
TakeTaskNoDequeue(w) ==
    /\ pc \in {"map_bbox", "map_video"}
    /\ worker[w].st = "idle"
    /\ taskq # <<>>
    /\ worker' = [worker EXCEPT ![w] = [st |-> "task", chunk |-> Head(taskq),
                                        pos |-> 1]]
    /\ UNCHANGED <<hasRoot, nprocs, nItems, pc, taskq, numberLeft, success,
                   calls, status, disk, bbVars, frVars, pathVars>>

\* worker(): task = get(): an idle worker takes the next chunk of the queue.
TakeTask(w) ==
    /\ pc \in {"map_bbox", "map_video"}
    /\ worker[w].st = "idle"
    /\ taskq # <<>>
    /\ worker' = [worker EXCEPT ![w] = [st |-> "task", chunk |-> Head(taskq),
                                        pos |-> 1]]
    /\ taskq' = Tail(taskq)
    /\ UNCHANGED <<hasRoot, nprocs, nItems, pc, numberLeft, success, calls,
                   status, disk, bbVars, frVars, pathVars>>

\* mapstar: the worker calls the conversion function on the next item of
\* its chunk.
CallItem(w) ==
    /\ worker[w].st = "task"
    /\ LET it == worker[w].chunk[worker[w].pos] IN
        /\ calls' = [calls EXCEPT ![it] = @ + 1]
        /\ status' = [status EXCEPT ![it] = "running"]
    /\ worker' = [worker EXCEPT ![w].st = "call"]
    /\ UNCHANGED <<hasRoot, nprocs, nItems, pc, taskq, numberLeft, success,
                   disk, bbVars, frVars, pathVars>>

\* Mutant of SetResult: the first exception makes the result ready at once.
SetResultFailFast(ok) ==
    /\ numberLeft' = IF ok THEN numberLeft - 1 ELSE 0
    /\ success' = (success /\ ok)

\* MapResult._set: one chunk has reported; the result is ready when none is
\* left, and it is a failure as soon as one chunk raised.
SetResult(ok) ==
    /\ numberLeft' = numberLeft - 1
    /\ success' = (success /\ ok)

\* The conversion function returns: its output is on disk. mapstar goes on
\* to the next item; after the last one the chunk reports success.
ItemReturns(w) ==
    /\ worker[w].st = "call"
    /\ LET it == worker[w].chunk[worker[w].pos] IN
        /\ status' = [status EXCEPT ![it] = "returned"]
        /\ disk' = disk \cup {it}
    /\ IF worker[w].pos < Len(worker[w].chunk)
       THEN /\ worker' = [worker EXCEPT ![w].st = "task", ![w].pos = @ + 1]
            /\ UNCHANGED <<numberLeft, success>>
       ELSE /\ worker' = [worker EXCEPT ![w] = Idle]
            /\ SetResult(TRUE)
    /\ UNCHANGED <<hasRoot, nprocs, nItems, pc, taskq, calls, bbVars,
                   frVars, pathVars>>

\* The conversion function raises: mapstar is left, so the rest of the chunk
\* is not called, and the chunk reports the exception.
ItemRaises(w) ==
    /\ worker[w].st = "call"
    /\ LET it == worker[w].chunk[worker[w].pos] IN
        /\ status' = [status EXCEPT ![it] = "raised"]
    /\ worker' = [worker EXCEPT ![w] = Idle]
    /\ SetResult(FALSE)
    /\ UNCHANGED <<hasRoot, nprocs, nItems, pc, taskq, calls, disk,
                   bbVars, frVars, pathVars>>

Next ==
    \/ ExitNoRoot
    \/ CreatePool
    \/ MapBBoxes
    \/ MapVideos
    \/ MapReturns
    \/ \E w \in Workers : TakeTask(w)
    \/ \E w \in Workers : CallItem(w)
    \/ \E w \in Workers : ItemReturns(w)
    \/ \E w \in Workers : ItemRaises(w)

\* ------------------------------------------------------------------------
\* Claims about main and the pool (Spec)
\* ------------------------------------------------------------------------
Raised(b) == {it \in ItemsOf(b) : status[it] = "raised"}
Finished(it) == status[it] \in {"returned", "raised"}
RunnersOf(it) ==
    {w \in Workers : worker[w].st = "call"
                     /\ worker[w].chunk[worker[w].pos] = it}
\* pool.map of batch b has returned or raised.
MapDone(b) ==
    IF b = "bbox" THEN pc \in {"glob_video", "map_video", "returned", "raised"}
    ELSE pc = "returned" \/ (pc = "raised" /\ Raised("bbox") = {})
\* Two items of a batch are in the same chunk of its map.
SameChunk(it, jt) ==
    /\ it[1] = jt[1]
    /\ (it[2] - 1) \div ChunkSize(nItems[it[1]], nprocs)
         = (jt[2] - 1) \div ChunkSize(nItems[it[1]], nprocs)
\* Item it comes after an item of its own chunk that raised.
CutOff(it) ==
    \E jt \in Raised(it[1]) : SameChunk(it, jt) /\ jt[2] < it[2]

\* C1: whatever the number of items and the pool size, no item is ever
\* invoked twice or by two workers at once, and when a map in which no
\* function call failed is over, every item of the batch has been invoked
\* exactly once and its invocation has finished.
C1_ExactlyOncePerItem ==
    /\ \A it \in AllItems :
        /\ calls[it] <= 1
        /\ Cardinality(RunnersOf(it)) = (IF status[it] = "running" THEN 1 ELSE 0)
        /\ it[2] > nItems[it[1]] => calls[it] = 0
    /\ \A b \in Batches :
        (MapDone(b) /\ Raised(b) = {}) =>
            \A it \in ItemsOf(b) : calls[it] = 1 /\ status[it] = "returned"

C1_Witness ==
    /\ pc = "returned"
    /\ nprocs = 2
    /\ nItems["bbox"] >= 3
    /\ nItems["video"] >= 3

\* C3 (as claimed): when main is over, every work item of the run that did
\* not itself raise has been processed to completion and its output is
\* written, in the same batch and in the later batch.
C3_OnlyTheFailingItemIsLost ==
    pc \in {"returned", "raised"} =>
        \A b \in Batches : \A it \in ItemsOf(b) :
            status[it] # "raised" => (status[it] = "returned" /\ it \in disk)

\* C4 (as claimed): fail-fast: once an item of the batch has raised, no item
\* that had not started is started.
C4_NothingStartsAfterAFailure ==
    [][~success => calls' = calls]_vars

\* C4 (amended): a raise in a worker reaches main as a raise of pool.map,
\* but only when every chunk of the batch has reported: the items that
\* follow the failing one in its own chunk are never invoked, every other
\* item of the batch is, the map never returns normally, the later batch is
\* never dispatched, and the output of every item that returned is on disk.
C4_RaisesAfterAllChunks ==
    /\ \A it \in AllItems : CutOff(it) => calls[it] = 0
    /\ \A it \in AllItems : status[it] = "returned" => it \in disk
    /\ Raised("bbox") # {} =>
        /\ pc \in {"map_bbox", "raised"}
        /\ \A it \in ItemsOf("video") : calls[it] = 0
    /\ Raised("video") # {} => pc \in {"map_video", "raised"}
    /\ pc = "raised" =>
        /\ Raised("bbox") \cup Raised("video") # {}
        /\ taskq = <<>>
        /\ \A w \in Workers : worker[w].st \in {"idle", "none"}
        /\ \A b \in Batches : Raised(b) # {} =>
            \A it \in ItemsOf(b) : Finished(it) \/ CutOff(it)

C4_Witness ==
    /\ pc = "raised"
    /\ status[<<"bbox", 1>>] = "raised"
    /\ status[<<"bbox", 2>>] = "pending"
    /\ status[<<"bbox", 3>>] = "returned"
    /\ <<"bbox", 3>> \in disk

\* C10: no extract_frames item is invoked before every
\* extract_bounding_boxes item of the run has finished, and without
\* DATA_ROOT main goes from its start to sys.exit(1) with no pool created and
\* no item invoked.
C10_BatchesInSequence ==
    /\ (\E it \in ItemsOf("video") : calls[it] > 0) =>
        \A jt \in ItemsOf("bbox") : Finished(jt) /\ RunnersOf(jt) = {}
    /\ ~hasRoot =>
        /\ pc \in {"start", "exit1"}
        /\ \A w \in Workers : worker[w].st = "none"
        /\ \A it \in AllItems : calls[it] = 0
        /\ taskq = <<>>
    /\ pc = "exit1" => ~hasRoot

C10_Witness ==
    /\ nprocs = 2
    /\ nItems["bbox"] >= 2
    /\ \E it \in ItemsOf("video") : status[it] = "running"
    /\ \E it \in ItemsOf("video") : status[it] = "returned"

BBIdle ==
    /\ bpc = "idle"
    /\ source = [readable |-> FALSE, refs |-> <<>>]
    /\ ib = 0
    /\ bboxes = <<>>
    /\ dstFile = [exists |-> FALSE, data |-> <<>>]
    /\ dstFile0 = [exists |-> FALSE, data |-> <<>>]
    /\ saves = 0

FrIdle ==
    /\ fpc = "idle"
    /\ nFrames = 0
    /\ badAt = -1
    /\ i_frame = 0
    /\ dirExists = FALSE
    /\ frames = <<>>
    /\ frames0 = <<>>
    /\ imwrites = <<>>
    /\ run = 0

PathIdle ==
    /\ ppc = "idle"
    /\ files = {}
    /\ discovered = {}
    /\ dstOf = <<>>

MainIdle ==
    /\ hasRoot = FALSE
    /\ nprocs = 1
    /\ nItems = [b \in Batches |-> 0]
    /\ pc = "idle"
    /\ taskq = <<>>
    /\ worker = [w \in Workers |-> [st |-> "none", chunk |-> <<>>, pos |-> 0]]
    /\ numberLeft = 0
    /\ success = TRUE
    /\ calls = [it \in AllItems |-> 0]
    /\ status = [it \in AllItems |-> "pending"]
    /\ disk = {}

Init == MainInit /\ BBIdle /\ FrIdle /\ PathIdle
Spec == Init /\ [][Next]_vars
\* ------------------------------------------------------------------------
\* extract_bounding_boxes
\* ------------------------------------------------------------------------
\* The shape of a mask as stored in the file, (width, height): h5py reads
\* the arrays MATLAB wrote with their axes reversed.
MaskShape == <<3, 2>>
Xs == 0..(MaskShape[1] - 1)
Ys == 0..(MaskShape[2] - 1)
Stored == [Xs \X Ys -> {0, 1}]
\* What a reference of f['Masks'] leads to: a stored array, or nothing that
\* f['#refs#'][ref] can resolve (ok = FALSE; data is unused then).
Entries ==
    [ok : {TRUE}, data : Stored]
        \cup {[ok |-> FALSE, data |-> [p \in Xs \X Ys |-> 0]]}
\* The annotation file: h5py.File can open it or not.
Sources ==
    {[readable |-> FALSE, refs |-> <<>>]}
        \cup {[readable |-> TRUE, refs |-> r] :
                r \in UNION {[1..n -> Entries] : n \in 0..MaxMasks}}
\* The destination file.
Absent == [exists |-> FALSE, data |-> <<>>]
OldFile == [exists |-> TRUE, data |-> << <<7, 7, 7, 7>> >>]
\* An entry of np.empty that has not been assigned.
Uninit == <<-1, -1, -1, -1>>

\* An array of shape (rows, cols) is [shape |-> <<rows, cols>>, at |-> f], f
\* on (0..rows-1) \X (0..cols-1).
\* np.array(f['#refs#'][ref]): the stored array, first axis x.
AsArray(data) == [shape |-> MaskShape, at |-> data]
\* Mutant of Transposed: the array is left as stored.
NotTransposed(a) == a
\* .T
Transposed(a) ==
    [shape |-> <<a.shape[2], a.shape[1]>>,
     at |-> [p \in (0..(a.shape[2] - 1)) \X (0..(a.shape[1] - 1)) |->
                a.at[<<p[2], p[1]>>]]]
\* np.any(mask, axis=0): for each column, whether a row is nonzero there.
AnyAxis0(a) ==
    [c \in 0..(a.shape[2] - 1) |->
        \E r \in 0..(a.shape[1] - 1) : a.at[<<r, c>>] # 0]
\* np.any(mask, axis=1): for each row, whether a column is nonzero there.
AnyAxis1(a) ==
    [r \in 0..(a.shape[1] - 1) |->
        \E c \in 0..(a.shape[2] - 1) : a.at[<<r, c>>] # 0]
\* np.nonzero(v)[0]: the indices 0..n-1 at which v holds, increasing.
RECURSIVE NonzeroUpTo(_, _)
NonzeroUpTo(v, n) ==
    IF n = 0 THEN <<>>
    ELSE IF v[n - 1] THEN Append(NonzeroUpTo(v, n - 1), n - 1)
         ELSE NonzeroUpTo(v, n - 1)
Nonzero(v) == NonzeroUpTo(v, Cardinality(DOMAIN v))
\* idx[[0, -1]]: the first and the last element; IndexError on an empty idx.
FirstLast(idx) ==
    IF Len(idx) = 0 THEN [error |-> TRUE, lo |-> 0, hi |-> 0]
    ELSE [error |-> FALSE, lo |-> idx[1], hi |-> idx[Len(idx)]]

\* Lines 39-44: the box of one mask; an IndexError gives [0, 0, 0, 0].
BBoxOf(mask) ==
    LET x == FirstLast(Nonzero(AnyAxis0(mask)))
        y == FirstLast(Nonzero(AnyAxis1(mask)))
    IN  IF x.error \/ y.error THEN <<0, 0, 0, 0>>
        ELSE <<x.lo, y.lo, x.hi - x.lo + 1, y.hi - y.lo + 1>>

InitBBox ==
    /\ bpc = "open"
    /\ source \in Sources
    /\ ib = 0
    /\ bboxes = <<>>
    /\ dstFile0 \in {Absent, OldFile}
    /\ dstFile = dstFile0
    /\ saves = 0
    /\ FrIdle /\ PathIdle /\ MainIdle

\* Line 34, h5py.File: the file cannot be opened, the error leaves the
\* function.
OpenFails ==
    /\ bpc = "open"
    /\ ~source.readable
    /\ bpc' = "raised"
    /\ UNCHANGED <<source, ib, bboxes, dstFile, dstFile0, saves, mainVars,
                   frVars, pathVars>>

\* Lines 34-36: the file opens; one uninitialised row per reference.
OpenFile ==
    /\ bpc = "open"
    /\ source.readable
    /\ bboxes' = [k \in 1..Len(source.refs) |-> Uninit]
    /\ ib' = 0
    /\ bpc' = "loop"
    /\ UNCHANGED <<source, dstFile, dstFile0, saves, mainVars, frVars,
                   pathVars>>

\* Line 38 raises: the reference does not resolve. The statement is outside
\* the try block, so the error leaves the loop and the function.
ResolveFails ==
    /\ bpc = "loop"
    /\ ib < Len(source.refs)
    /\ ~source.refs[ib + 1].ok
    /\ bpc' = "raised"
    /\ UNCHANGED <<source, ib, bboxes, dstFile, dstFile0, saves, mainVars,
                   frVars, pathVars>>

\* Mutant of DecodeMask: np.save sits inside the loop.
DecodeMaskAndSave ==
    /\ bpc = "loop"
    /\ ib < Len(source.refs)
    /\ source.refs[ib + 1].ok
    /\ bboxes' = [bboxes EXCEPT ![ib + 1] =
                    BBoxOf(Transposed(AsArray(source.refs[ib + 1].data)))]
    /\ ib' = ib + 1
    /\ dstFile' = [exists |-> TRUE, data |-> bboxes']
    /\ saves' = saves + 1
    /\ UNCHANGED <<bpc, source, dstFile0, mainVars, frVars, pathVars>>

\* Lines 37-44, one iteration: the mask is resolved and transposed, its box
\* is stored in row i.
DecodeMask ==
    /\ bpc = "loop"
    /\ ib < Len(source.refs)
    /\ source.refs[ib + 1].ok
    /\ bboxes' = [bboxes EXCEPT ![ib + 1] =
                    BBoxOf(Transposed(AsArray(source.refs[ib + 1].data)))]
    /\ ib' = ib + 1
    /\ UNCHANGED <<bpc, source, dstFile, dstFile0, saves, mainVars, frVars,
                   pathVars>>

\* Lines 46-49, after the loop: np.save writes the array to the destination,
\* replacing what was there.
SaveBBoxes ==
    /\ bpc = "loop"
    /\ ib = Len(source.refs)
    /\ dstFile' = [exists |-> TRUE, data |-> bboxes]
    /\ saves' = saves + 1
    /\ bpc' = "returned"
    /\ UNCHANGED <<source, ib, bboxes, dstFile0, mainVars, frVars, pathVars>>

NextBBox ==
    \/ OpenFails
    \/ OpenFile
    \/ ResolveFails
    \/ DecodeMask
    \/ SaveBBoxes

SpecBBox == InitBBox /\ [][NextBBox]_vars

\* ------------------------------------------------------------------------
\* Claims about extract_bounding_boxes (SpecBBox)
\* ------------------------------------------------------------------------
Min(S) == CHOOSE x \in S : \A y \in S : x <= y
Max(S) == CHOOSE x \in S : \A y \in S : x >= y
\* The columns and the rows of the image that hold a nonzero pixel: pixel
\* (column x, row y) of the image is data[x, y] of the stored array.
ColsOf(data) == {x \in Xs : \E y \in Ys : data[<<x, y>>] # 0}
RowsOf(data) == {y \in Ys : \E x \in Xs : data[<<x, y>>] # 0}
TightBox(data) ==
    IF ColsOf(data) = {} THEN <<0, 0, 0, 0>>
    ELSE <<Min(ColsOf(data)), Min(RowsOf(data)),
           Max(ColsOf(data)) - Min(ColsOf(data)) + 1,
           Max(RowsOf(data)) - Min(RowsOf(data)) + 1>>

\* C7: the array has one row per mask, row k computed so far (and every
\* row of the array saved) is [c0, r0, c1-c0+1, r1-r0+1] for the least and
\* greatest column and row of mask k holding a nonzero pixel, and
\* [0, 0, 0, 0] for a mask without one.
C7_BoxPerMaskInOrder ==
    /\ bpc \in {"loop", "returned"} =>
        /\ Len(bboxes) = Len(source.refs)
        /\ \A k \in 1..ib : bboxes[k] = TightBox(source.refs[k].data)
    /\ bpc = "returned" =>
        /\ ib = Len(source.refs)
        /\ dstFile.data = bboxes

C7_Witness ==
    /\ bpc = "returned"
    /\ Len(source.refs) = 2
    /\ dstFile.data[1] = <<0, 0, 0, 0>>
    /\ dstFile.data[2] = <<0, 1, 3, 1>>
    /\ source.refs[2].data[<<1, 1>>] = 0

\* C8 (as claimed): a file that opens never makes the work item raise: an
\* entry that does not resolve gets the box [0, 0, 0, 0], the other frames
\* are decoded and the array is saved.
C8_BadEntryRecovered ==
    source.readable =>
        /\ bpc # "raised"
        /\ \A k \in 1..ib : ~source.refs[k].ok => bboxes[k] = <<0, 0, 0, 0>>

EveryFifth == 5
EverySixtyFourth == 64

\* Mutant of Selected: only every 5th frame.
SelectedFifthOnly(i) == i % EveryFifth = 0
\* Line 61: the frames that are saved.
Selected(i) == i % EveryFifth = 0 \/ i % EverySixtyFourth = 0

\* The decimal digits of i >= 0.
RECURSIVE Digits(_)
Digits(i) == IF i < 10 THEN <<i>> ELSE Append(Digits(i \div 10), i % 10)
\* Line 62, f'frame_{i_frame:06d}.jpg': the digits, padded with zeros to at
\* least six.
FrameFile(i) ==
    [prefix |-> "frame_",
     number |-> [k \in 1..(6 - Len(Digits(i))) |-> 0] \o Digits(i),
     ext |-> ".jpg"]

\* Mutant of Exists: the file is never found.
ExistsNever(f) == FALSE
\* Line 64, os.path.exists(dst_path).
Exists(f) == f \in DOMAIN frames

\* The videos: up to MaxFrames frames, and the 700 frames of the test
\* stream.
VideoLengths == (0..MaxFrames) \cup {700}
ExpectedIn(n) == {i \in 0..(n - 1) : i % 5 = 0 \/ i % 64 = 0}
\* What the destination folder holds before the first run: any subset of the
\* expected files for a short video, some of them for the long one.
InitialDirs(n) ==
    IF n <= MaxFrames THEN SUBSET ExpectedIn(n)
    ELSE {{}, {i \in ExpectedIn(n) : i % 64 = 0},
          {i \in ExpectedIn(n) : i % 64 # 0 /\ i < 400}}
\* The bytes of a file left by an earlier, unknown run, and those imwrite
\* makes of frame i.
OldBytes == <<"stale">>
FrameBytes(i) == <<"frame", i>>
PutFile(dir, f, bytes) ==
    [g \in DOMAIN dir \cup {f} |-> IF g = f THEN bytes ELSE dir[g]]
Count(f) == IF f \in DOMAIN imwrites THEN imwrites[f] ELSE 0
\* A folder holding the files of the frames S: left by earlier runs of
\* extract_frames on this video (genuine), or by something else.
FolderOf(S, genuine) ==
    [f \in {FrameFile(i) : i \in S} |->
        IF genuine THEN FrameBytes(CHOOSE i \in S : FrameFile(i) = f)
        ELSE OldBytes]

InitFrames ==
    /\ fpc = "idle"
    /\ nFrames \in VideoLengths
    /\ badAt \in -1..MaxFrames
    /\ badAt < nFrames
    /\ i_frame = 0
    /\ \E S \in InitialDirs(nFrames) : \E genuine \in BOOLEAN :
        frames = FolderOf(S, genuine)
    /\ dirExists \in BOOLEAN
    /\ frames # <<>> => dirExists
    /\ frames0 = frames
    /\ imwrites = <<>>
    /\ run = 0
    /\ BBIdle /\ PathIdle /\ MainIdle

\* Lines 54-59, a call of extract_frames: os.makedirs with exist_ok=True
\* makes the folder or finds it there, and the reader is opened.
StartRun ==
    /\ fpc \in {"idle", "returned", "raised"}
    /\ run < MaxRuns
    /\ run' = run + 1
    /\ frames0' = frames
    /\ imwrites' = <<>>
    /\ i_frame' = 0
    /\ dirExists' = TRUE
    /\ fpc' = "loop"
    /\ UNCHANGED <<nFrames, badAt, frames, mainVars, bbVars, pathVars>>

\* Line 60: the reader fails to decode the next frame; the error leaves the
\* function.
DecodeFails ==
    /\ fpc = "loop"
    /\ i_frame < nFrames
    /\ i_frame = badAt
    /\ fpc' = "raised"
    /\ UNCHANGED <<nFrames, badAt, i_frame, dirExists, frames, frames0,
                   imwrites, run, mainVars, bbVars, pathVars>>

\* Lines 60-61: a frame that is not selected is passed over.
SkipFrame ==
    /\ fpc = "loop"
    /\ i_frame < nFrames
    /\ i_frame # badAt
    /\ ~Selected(i_frame)
    /\ i_frame' = i_frame + 1
    /\ UNCHANGED <<fpc, nFrames, badAt, dirExists, frames, frames0, imwrites,
                   run, mainVars, bbVars, pathVars>>

\* Lines 60-64: a selected frame whose file exists is not written.
KeepExisting ==
    /\ fpc = "loop"
    /\ i_frame < nFrames
    /\ i_frame # badAt
    /\ Selected(i_frame)
    /\ Exists(FrameFile(i_frame))
    /\ i_frame' = i_frame + 1
    /\ UNCHANGED <<fpc, nFrames, badAt, dirExists, frames, frames0, imwrites,
                   run, mainVars, bbVars, pathVars>>

\* Lines 60-65: a selected frame whose file does not exist is written.
WriteFrame ==
    /\ fpc = "loop"
    /\ i_frame < nFrames
    /\ i_frame # badAt
    /\ Selected(i_frame)
    /\ ~Exists(FrameFile(i_frame))
    /\ frames' = PutFile(frames, FrameFile(i_frame), FrameBytes(i_frame))
    /\ imwrites' = PutFile(imwrites, FrameFile(i_frame),
                           Count(FrameFile(i_frame)) + 1)
    /\ i_frame' = i_frame + 1
    /\ UNCHANGED <<fpc, nFrames, badAt, dirExists, frames0, run, mainVars,
                   bbVars, pathVars>>

\* Line 60: the reader is exhausted; the function returns.
EndOfVideo ==
    /\ fpc = "loop"
    /\ i_frame = nFrames
    /\ fpc' = "returned"
    /\ UNCHANGED <<nFrames, badAt, i_frame, dirExists, frames, frames0,
                   imwrites, run, mainVars, bbVars, pathVars>>

NextFrames ==
    \/ StartRun
    \/ DecodeFails
    \/ SkipFrame
    \/ KeepExisting
    \/ WriteFrame
    \/ EndOfVideo

SpecFrames == InitFrames /\ [][NextFrames]_vars

\* ------------------------------------------------------------------------
\* Claims about extract_frames (SpecFrames)
\* ------------------------------------------------------------------------
ExpectedFiles(n) == {FrameFile(i) : i \in ExpectedIn(n)}
Written == {f \in DOMAIN imwrites : imwrites[f] > 0}

\* C5: a run that read all n frames into an empty folder has written the
\* files of exactly the indices i < n with i mod 5 = 0 or i mod 64 = 0, one
\* file per index, each once and holding frame i; 148 files for n = 700.
C5_ExactlyTheSelectedFrames ==
    /\ (frames0 = <<>> /\ fpc \in {"loop", "returned"}) =>
        /\ DOMAIN frames = ExpectedFiles(IF fpc = "loop" THEN i_frame
                                        ELSE nFrames)
        /\ Written = DOMAIN frames
        /\ \A i \in ExpectedIn(i_frame) :
            /\ frames[FrameFile(i)] = FrameBytes(i)
            /\ imwrites[FrameFile(i)] = 1
    /\ (frames0 = <<>> /\ fpc = "returned") =>
        /\ i_frame = nFrames
        /\ Cardinality(DOMAIN frames) = Cardinality(ExpectedIn(nFrames))
        /\ nFrames = 700 => Cardinality(Written) = 148

C5_Witness ==
    /\ fpc = "returned"
    /\ nFrames = 700
    /\ frames0 = <<>>
    /\ imwrites[FrameFile(320)] = 1
    /\ imwrites[FrameFile(640)] = 1

\* C6: a run never writes or changes a file that was there when it started;
\* existing files do not make it fail (only a frame that cannot be decoded
\* does); a run that read the whole video has written exactly the expected
\* files that were missing, each holding its frame, and leaves exactly the
\* expected files: what one complete run leaves, when the files found were
\* frame files of this video. A run after a complete run writes nothing.
C6_WritesOnlyTheMissing ==
    /\ \A f \in DOMAIN frames0 :
        f \in DOMAIN frames /\ frames[f] = frames0[f] /\ Count(f) = 0
    /\ \A f \in DOMAIN imwrites : imwrites[f] <= 1
    /\ fpc = "raised" => (badAt >= 0 /\ i_frame = badAt)
    /\ fpc = "returned" =>
        /\ Written = ExpectedFiles(nFrames) \ DOMAIN frames0
        /\ DOMAIN frames = ExpectedFiles(nFrames)
        /\ \A i \in ExpectedIn(nFrames) :
            FrameFile(i) \notin DOMAIN frames0
                => frames[FrameFile(i)] = FrameBytes(i)
        /\ frames0 = FolderOf({i \in ExpectedIn(nFrames) :
                                 FrameFile(i) \in DOMAIN frames0}, TRUE)
            => frames = FolderOf(ExpectedIn(nFrames), TRUE)
        /\ DOMAIN frames0 = ExpectedFiles(nFrames) => imwrites = <<>>
    /\ (fpc = "returned" /\ run > 1 /\ badAt = -1) => imwrites = <<>>

C6_Witness ==
    /\ fpc = "returned"
    /\ run = 1
    /\ nFrames = 700
    /\ FrameFile(320) \in DOMAIN frames0
    /\ frames0[FrameFile(320)] = FrameBytes(320)
    /\ FrameFile(325) \notin DOMAIN frames0
    /\ frames[FrameFile(325)] = FrameBytes(325)

\* ------------------------------------------------------------------------
\* The destination paths
\* ------------------------------------------------------------------------
\* A path component is a name and an extension of four characters (or
\* none); a path is the sequence of its directories and its file name.
Dir(name) == [base |-> name, ext |-> ""]
File(name, ext) == [base |-> name, ext |-> ext]
data_root == <<Dir("data")>>
DirNames == {"S1", "S9", "MyPoseFeatures"}
LeafDirs == {"ground_truth_bb", "Videos"}
FileNames == {File(n, e) : n \in {"Walking", "Walking.55011271"},
                           e \in {".mat", ".mp4"}}
Mids == UNION {[1..n -> {Dir(d) : d \in DirNames}] : n \in 0..MaxDepth}
\* The files there may be under DATA_ROOT/h36m.
Paths ==
    {[dirs |-> data_root \o <<Dir("h36m")>> \o m \o <<Dir(l)>>, name |-> f] :
        m \in Mids, l \in LeafDirs, f \in FileNames}

\* Lines 21 and 24, glob.glob(f'{data_root}/h36m/**/<leaf>/*<ext>',
\* recursive=True): ** stands for any number of directories, none included.
Glob(leaf, ext) ==
    {p \in files :
        /\ Len(p.dirs) >= Len(data_root) + 2
        /\ SubSeq(p.dirs, 1, Len(data_root) + 1)
             = data_root \o <<Dir("h36m")>>
        /\ p.dirs[Len(p.dirs)] = Dir(leaf)
        /\ p.name.ext = ext}

\* pathlib.Path(p).parents[k] for the path of a file: its directory with the
\* last k components removed.
Parents(p, k) == SubSeq(p.dirs, 1, Len(p.dirs) - k)

\* Lines 46-47: os.path.basename, filename[:-4] and
\* parents[2] / f'BBoxes/{...}.npy'.
BBoxDst(p) ==
    [dirs |-> Parents(p, 2) \o <<Dir("BBoxes")>>,
     name |-> File(p.name.base, ".npy")]

\* Lines 55-56: the stem of the video and parents[1] / 'Images' / video_name;
\* the frame files go into this folder.
FramesDst(p) ==
    [dirs |-> Parents(p, 1) \o <<Dir("Images"), Dir(p.name.base)>>,
     name |-> File("frame_*", ".jpg")]

InitPaths ==
    /\ ppc = "glob_bbox"
    /\ \E p \in Paths : \E q \in Paths : p # q /\ files = {p, q}
    /\ discovered = {}
    /\ dstOf = <<>>
    /\ BBIdle /\ FrIdle /\ MainIdle

\* Line 21: the annotation files are discovered.
GlobBBoxes ==
    /\ ppc = "glob_bbox"
    /\ discovered' = Glob("ground_truth_bb", ".mat")
    /\ ppc' = "map_bbox"
    /\ UNCHANGED <<files, dstOf, mainVars, bbVars, frVars>>

\* Lines 22 and 46-49: a worker runs extract_bounding_boxes on a path and
\* writes to the destination derived from it.
WriteBBoxes(p) ==
    /\ ppc = "map_bbox"
    /\ p \in discovered
    /\ dstOf' = [q \in DOMAIN dstOf \cup {p} |->
                    IF q = p THEN BBoxDst(p) ELSE dstOf[q]]
    /\ discovered' = discovered \ {p}
    /\ UNCHANGED <<ppc, files, mainVars, bbVars, frVars>>

\* Line 24: the first map is over; the videos are discovered.
GlobVideos ==
    /\ ppc = "map_bbox"
    /\ discovered = {}
    /\ discovered' = Glob("Videos", ".mp4")
    /\ ppc' = "map_video"
    /\ UNCHANGED <<files, dstOf, mainVars, bbVars, frVars>>

\* Lines 25 and 55-65: a worker runs extract_frames on a path and writes
\* into the folder derived from it.
WriteFrames(p) ==
    /\ ppc = "map_video"
    /\ p \in discovered
    /\ dstOf' = [q \in DOMAIN dstOf \cup {p} |->
                    IF q = p THEN FramesDst(p) ELSE dstOf[q]]
    /\ discovered' = discovered \ {p}
    /\ UNCHANGED <<ppc, files, mainVars, bbVars, frVars>>

NextPaths ==
    \/ GlobBBoxes
    \/ \E p \in Paths : WriteBBoxes(p)
    \/ GlobVideos
    \/ \E p \in Paths : WriteFrames(p)

SpecPaths == InitPaths /\ [][NextPaths]_vars

\* ------------------------------------------------------------------------
\* Claims about the destination paths (SpecPaths)
\* ------------------------------------------------------------------------
\* C2 (as claimed): two distinct sources of one batch never write to the
\* same destination: the derivation is injective on what glob discovers.
C2_DisjointDestinations ==
    \A p \in DOMAIN dstOf : \A q \in DOMAIN dstOf :
        (p # q /\ p.name.ext = q.name.ext) => dstOf[p] # dstOf[q]

\* The half of C2 that holds: the folders of two distinct videos differ.
C2_DisjointFrameFolders ==
    \A p \in DOMAIN dstOf : \A q \in DOMAIN dstOf :
        (p # q /\ p.name.ext = ".mp4" /\ q.name.ext = ".mp4")
            => dstOf[p] # dstOf[q]

====
